---- MODULE Spec2Model ----
(***************************************************************************)
(* Model of the PDF-to-image service (src/app.py): the /convert and        *)
(* /convert-batch handlers, the input resolution they perform, the limits  *)
(* they enforce and the calls they make to the page renderer.              *)
(*                                                                         *)
(* A request is drawn in Init.  What the outside world answers (the HTTP   *)
(* download, the bytes of the document, the behaviour of the rendering     *)
(* library) is drawn at the step of the handler that observes it.          *)
(* Optional request keys are sequences: <<>> is "key absent", <<v>> is     *)
(* "key present with value v".  Option values (page, dpi) are integers, as *)
(* in the data model of the specification.  Strings the code inspects      *)
(* (file name, URL, content-type) are sequences of one-character strings.  *)
(***************************************************************************)
EXTENDS Integers, Sequences, FiniteSets, TLC

\* ---------------------------------------------------------------- bounds
\* longest `pages` list of a batch request that is enumerated
MaxBatchLen == 6
\* largest page count of an enumerated document
MaxDocPages == 1

\* ------------------------------------------------------ program constants
\* dpi = min(dpi, 400)
MaxDpi == 400
\* request.json.get('dpi', 300)
DefaultDpi == 300
\* request.json.get('page', 1)
DefaultPage == 1
\* if len(pages) > 5
MaxBatchPages == 5
\* if len(pdf_data) > 10 * 1024 * 1024
MaxPdfSize == 10 * 1024 * 1024
\* requests.get(..., timeout=20): status code of a successful download
HttpOk == 200

\* ------------------------------------------------------------- strings
Lower(c) ==
    CASE c = "P" -> "p"
      [] c = "D" -> "d"
      [] c = "F" -> "f"
      [] c = "A" -> "a"
      [] c = "T" -> "t"
      [] c = "X" -> "x"
      [] OTHER -> c

\* str.lower()
lower(s) == [k \in 1..Len(s) |-> Lower(s[k])]

\* str.endswith(suffix)
endswith(s, suffix) ==
    /\ Len(s) >= Len(suffix)
    /\ SubSeq(s, Len(s) - Len(suffix) + 1, Len(s)) = suffix

\* sub in s
contains(s, sub) ==
    \E k \in 1..(Len(s) - Len(sub) + 1) : SubSeq(s, k, k + Len(sub) - 1) = sub

DotPdf == <<".", "p", "d", "f">>
Pdf == <<"p", "d", "f">>

\* dict.get(key, default) on an optional key
Get(o, default) == IF o = <<>> THEN default ELSE o[1]

\* min(a, b)
Min(a, b) == IF a <= b THEN a ELSE b

\* ------------------------------------------------------------- messages
\* An error text: the fixed wording and the values interpolated into it.
Msg(text, args) == [text |-> text, args |-> args, cause |-> ""]
\* f'{prefix}: {str(e)}'
Wrapped(prefix, m) == [text |-> prefix, args |-> m.args, cause |-> m.text]
NoMsg == Msg("", <<>>)

RangeText == "first page is after last page"

\* ------------------------------------------------------------- inputs
\* file names of an uploaded `pdf` field
FileNames == { <<"a", ".", "p", "d", "f">>, <<"a", ".", "P", "D", "F">>,
               <<"a", ".", "t", "x", "t">> }
\* values of the JSON key pdf_url
Urls == { <<"u", ".", "P", "d", "f">>, <<"u">> }
\* values of the JSON key pdf_base64: text b64decode accepts, text it rejects
Payloads == { "wellformed", "malformed" }
\* values of the content-type header of a download; <<>> is "no such header"
ContentTypes == { <<"a", "/", "P", "D", "F">>, <<"t", "x", "t">>, <<>> }
\* requested resolutions
DpiVals == { MaxDpi - 1, MaxDpi, MaxDpi + 1, 2 * MaxDpi }
\* requested page numbers (1-indexed): the first page, and one past the
\* longest enumerated document
PageVals == { 1, MaxDocPages + 1 }

Opt(S) == { <<>> } \cup { <<v>> : v \in S }

RECURSIVE SeqsUpTo(_, _)
SeqsUpTo(S, n) ==
    IF n = 0 THEN { <<>> }
    ELSE LET shorter == SeqsUpTo(S, n - 1)
         IN  shorter \cup { Append(q, v) : q \in { t \in shorter : Len(t) = n - 1 }, v \in S }

PageLists == SeqsUpTo(PageVals, MaxBatchLen)

\* A document: its byte length, its page count (0: the bytes are no PDF the
\* renderer can open) and the one page, if any, the renderer fails on.
Lens == { 0, 1, MaxPdfSize, MaxPdfSize + 1 }
Docs == { d \in [len : Lens, npages : 0..MaxDocPages, bad : 0..MaxDocPages] :
            /\ d.bad <= d.npages
            /\ d.len = 0 => d.npages = 0 }
\* pdf_data = None
NoData == [len |-> -1, npages |-> 0, bad |-> 0]

\* a status code other than 200
NotFound == 404

\* What requests.get does: raises Timeout, raises another RequestException,
\* or returns a response with a status code and a content-type header.
Fetches ==
    { [kind |-> "timeout", status |-> 0, ctype |-> <<>>],
      [kind |-> "error", status |-> 0, ctype |-> <<>>] }
    \cup { [kind |-> "response", status |-> NotFound, ctype |-> <<>>] }
    \cup { [kind |-> "response", status |-> HttpOk, ctype |-> c] : c \in ContentTypes }

ConvertRequests ==
    { r \in [ route : {"/convert"},
              file : Opt(FileNames),
              form_page : Opt({1}), form_dpi : Opt({MaxDpi + 1}), form_format : {<<>>},
              json : BOOLEAN,
              pdf_url : Opt(Urls), pdf_base64 : Opt(Payloads),
              page : Opt(PageVals), dpi : Opt(DpiVals), format : Opt({"binary"}),
              pages : {<<>>} ] :
        \* a JSON body with one of these keys is a non-empty object
        (r.pdf_url # <<>> \/ r.pdf_base64 # <<>> \/ r.page # <<>>
            \/ r.dpi # <<>> \/ r.format # <<>>) => r.json }

BatchRequests ==
    { r \in [ route : {"/convert-batch"},
              file : {<<>>},
              form_page : {<<>>}, form_dpi : {<<>>}, form_format : {<<>>},
              json : BOOLEAN,
              pdf_url : Opt(Urls), pdf_base64 : Opt(Payloads),
              page : {<<>>}, dpi : Opt(DpiVals), format : {<<>>},
              pages : Opt(PageLists) ] :
        (r.pdf_url # <<>> \/ r.pdf_base64 # <<>> \/ r.dpi # <<>> \/ r.pages # <<>>)
            => r.json }

\* ------------------------------------------------------------- renderer
\* The outcome of a call: a value, or a raised exception with its class and text.
Return(v) == [ok |-> TRUE, value |-> v, exc |-> "", msg |-> NoMsg]
Raise(exc, msg) == [ok |-> FALSE, value |-> <<>>, exc |-> exc, msg |-> msg]

\* pdf2image.convert_from_bytes(pdf_data, dpi, first_page, last_page, fmt):
\* the list of rendered pages.  For a page past the end of the document the
\* library either returns an empty list or raises with the page-range text,
\* depending on the build (raises_on_range).
convert_from_bytes(pdf_data, dpi, first_page, raises_on_range) ==
    IF pdf_data.npages = 0
    THEN Raise("PDFPageCountError", Msg("Unable to get page count", <<>>))
    ELSE IF first_page > pdf_data.npages
    THEN IF raises_on_range
         THEN Raise("Exception", Msg(RangeText, <<>>))
         ELSE Return(<<>>)
    ELSE IF first_page = pdf_data.bad
    THEN Raise("PDFSyntaxError", Msg("Syntax error", <<first_page>>))
    ELSE Return(<< [page |-> first_page, dpi |-> dpi] >>)

\* pdf_page_to_image(pdf_data, page_number, dpi)
pdf_page_to_image(pdf_data, page_number, dpi, raises_on_range) ==
    LET images == convert_from_bytes(pdf_data, dpi, page_number + 1, raises_on_range)
        e == IF images.ok
             THEN Raise("ValueError", Msg("Could not convert page", <<page_number + 1>>))
             ELSE images
    IN  IF images.ok /\ images.value # <<>>
        THEN Return(images.value[1])
        ELSE IF e.msg.text = RangeText
        THEN Raise("ValueError", Msg("Page does not exist in the PDF", <<page_number + 1>>))
        ELSE e

\* --------------------------------------------------------------- state
VARIABLES
    req,            \* the request being handled
    raises_on_range,\* behaviour of the installed rendering library
    pc,             \* position of the handler: "recv", "render", "loop", "done"
    pdf_data,       \* the resolved PDF buffer
    filename,       \* stem of the output file name
    page_num,       \* /convert: 0-indexed page
    dpi,            \* effective resolution
    response_format,\* /convert: 'base64' or 'binary'
    pages,          \* /convert-batch: the requested page numbers
    idx,            \* /convert-batch: number of entries of `pages` already handled
    results,        \* /convert-batch: the per-page results
    response,       \* the HTTP response
    fetched,        \* calls of requests.get: the URL and what came back
    decoded,        \* payloads base64.b64decode was called on
    uploads,        \* uploaded files file.read() was called on
    renders         \* calls of the renderer: <<page_number, dpi>>

vars == << req, raises_on_range, pc, pdf_data, filename, page_num, dpi,
           response_format, pages, idx, results, response, fetched, decoded, uploads, renders >>

NoResponse == [status |-> 0, kind |-> "none", success |-> FALSE, error |-> NoMsg,
               page |-> 0, dpi |-> 0, total_pages |-> 0]

\* jsonify({'error': ...}), status
ErrorResponse(status, msg) ==
    [status |-> status, kind |-> "error", success |-> FALSE, error |-> msg,
     page |-> 0, dpi |-> 0, total_pages |-> 0]

Init ==
    /\ req \in ConvertRequests \cup BatchRequests
    /\ raises_on_range \in BOOLEAN
    /\ pc = "recv"
    /\ pdf_data = NoData
    /\ filename = ""
    /\ page_num = 0
    /\ dpi = 0
    /\ response_format = ""
    /\ pages = <<>>
    /\ idx = 0
    /\ results = <<>>
    /\ response = NoResponse
    /\ fetched = <<>>
    /\ decoded = <<>>
    /\ uploads = <<>>
    /\ renders = <<>>

\* ------------------------------------------------------------- /convert
\* The outcome of resolving the request's PDF source: an error response
\* (status # 0) or the buffer, with the external reads it took.
Resolved(data, name, f, d, u) ==
    [status |-> 0, error |-> NoMsg, data |-> data, filename |-> name,
     fetched |-> f, decoded |-> d, uploads |-> u]
Rejected(status, msg, f, d, u) ==
    [status |-> status, error |-> msg, data |-> NoData, filename |-> "converted_page",
     fetched |-> f, decoded |-> d, uploads |-> u]

\* 'pdf' not in content_type and not pdf_url.lower().endswith('.pdf')
NotAPdf(content_type, pdf_url) ==
    ~contains(lower(content_type), Pdf) /\ ~endswith(lower(pdf_url), DotPdf)

\* the record of one call of requests.get
Fetched(pdf_url, fetch) == << [url |-> pdf_url, result |-> fetch] >>

\* convert_pdf, "Method 2: Download from URL"
convert_download(pdf_url, fetch, doc) ==
    IF fetch.kind = "timeout"
    THEN Rejected(408, Msg("Timeout downloading PDF from URL", <<>>), Fetched(pdf_url, fetch), <<>>, <<>>)
    ELSE IF fetch.kind = "error"
    THEN Rejected(400, Msg("Failed to download PDF", <<>>), Fetched(pdf_url, fetch), <<>>, <<>>)
    ELSE IF fetch.status # HttpOk
    THEN Rejected(400, Msg("Failed to download PDF: HTTP", <<fetch.status>>),
                  Fetched(pdf_url, fetch), <<>>, <<>>)
    ELSE IF NotAPdf(fetch.ctype, pdf_url)
    THEN Rejected(400, Msg("URL does not point to a PDF file", <<>>), Fetched(pdf_url, fetch), <<>>, <<>>)
    ELSE Resolved(doc, "url_pdf", Fetched(pdf_url, fetch), <<>>, <<>>)

\* mutant of convert_source: the JSON sources are tried before the upload
convert_source_json_first(r, fetch, doc) ==
    IF r.json /\ r.pdf_url # <<>>
    THEN convert_download(r.pdf_url[1], fetch, doc)
    ELSE IF r.json /\ r.pdf_base64 # <<>>
    THEN IF r.pdf_base64[1] = "malformed"
         THEN Rejected(400, Msg("Invalid base64 PDF data", <<>>), <<>>, <<r.pdf_base64[1]>>, <<>>)
         ELSE Resolved(doc, "base64_pdf", <<>>, <<r.pdf_base64[1]>>, <<>>)
    ELSE IF r.file # <<>>
    THEN IF ~endswith(lower(r.file[1]), DotPdf)
         THEN Rejected(400, Msg("File must be a PDF", <<>>), <<>>, <<>>, <<>>)
         ELSE Resolved(doc, "upload", <<>>, <<>>, <<r.file[1]>>)
    ELSE Rejected(400, Msg("No PDF provided. Use file upload, pdf_url, or pdf_base64", <<>>),
                  <<>>, <<>>, <<>>)

\* convert_pdf, "Handle different input methods"
convert_source(r, fetch, doc) ==
    IF r.file # <<>>
    THEN IF ~endswith(lower(r.file[1]), DotPdf)
         THEN Rejected(400, Msg("File must be a PDF", <<>>), <<>>, <<>>, <<>>)
         ELSE Resolved(doc, "upload", <<>>, <<>>, <<r.file[1]>>)
    ELSE IF r.json /\ r.pdf_url # <<>>
    THEN convert_download(r.pdf_url[1], fetch, doc)
    ELSE IF r.json /\ r.pdf_base64 # <<>>
    THEN IF r.pdf_base64[1] = "malformed"
         THEN Rejected(400, Msg("Invalid base64 PDF data", <<>>), <<>>, <<r.pdf_base64[1]>>, <<>>)
         ELSE Resolved(doc, "base64_pdf", <<>>, <<r.pdf_base64[1]>>, <<>>)
    ELSE Rejected(400, Msg("No PDF provided. Use file upload, pdf_url, or pdf_base64", <<>>),
                  <<>>, <<>>, <<>>)

\* request.form.get(key, request.json.get(key, default) if request.json else default)
option(r, form_value, json_value, default) ==
    Get(form_value, IF r.json THEN Get(json_value, default) ELSE default)

\* mutant of limit_dpi: the requested value is passed on as it is
limit_dpi_unclamped(requested) == requested

\* dpi = min(dpi, 400)
limit_dpi(requested) == Min(requested, MaxDpi)

\* mutant of too_large: a buffer of exactly the limit is refused as well
too_large_inclusive(data) == data.len >= MaxPdfSize

\* len(pdf_data) > 10 * 1024 * 1024
too_large(data) == data.len > MaxPdfSize

\* convert_pdf up to the call of the renderer: options, source, empty and
\* size checks
convert_pdf_resolve ==
    /\ pc = "recv"
    /\ req.route = "/convert"
    /\ \E fetch \in Fetches, doc \in Docs :
        LET src == convert_source(req, fetch, doc)
            reply == IF src.status # 0 THEN ErrorResponse(src.status, src.error)
                     ELSE IF src.data.len = 0
                     THEN ErrorResponse(400, Msg("No PDF data received", <<>>))
                     ELSE IF too_large(src.data)
                     THEN ErrorResponse(400, Msg("PDF file too large. Maximum size: 10MB", <<>>))
                     ELSE NoResponse
        IN  /\ page_num' = option(req, req.form_page, req.page, DefaultPage) - 1
            /\ dpi' = limit_dpi(option(req, req.form_dpi, req.dpi, DefaultDpi))
            /\ response_format' = option(req, req.form_format, req.format, "base64")
            /\ pdf_data' = src.data
            /\ filename' = src.filename
            /\ fetched' = src.fetched
            /\ decoded' = src.decoded
            /\ uploads' = src.uploads
            /\ response' = reply
            /\ pc' = IF reply.status = 0 THEN "render" ELSE "done"
    /\ UNCHANGED << req, raises_on_range, pages, idx, results, renders >>

\* convert_pdf from the call of the renderer to the response
convert_pdf_render ==
    /\ pc = "render"
    /\ req.route = "/convert"
    /\ LET img == pdf_page_to_image(pdf_data, page_num, dpi, raises_on_range)
       IN  /\ renders' = Append(renders, <<page_num, dpi>>)
           /\ response' =
                IF img.ok
                THEN [status |-> 200,
                      kind |-> IF response_format = "binary" THEN "binary" ELSE "image",
                      success |-> response_format # "binary",
                      error |-> NoMsg,
                      page |-> page_num + 1,
                      dpi |-> IF response_format = "binary" THEN 0 ELSE dpi,
                      total_pages |-> 0]
                ELSE IF img.exc = "ValueError"
                THEN ErrorResponse(400, img.msg)
                ELSE ErrorResponse(500, Wrapped("Conversion failed", img.msg))
    /\ pc' = "done"
    /\ UNCHANGED << req, raises_on_range, pdf_data, filename, page_num, dpi,
                    response_format, pages, idx, results, fetched, decoded, uploads >>

\* ------------------------------------------------------- /convert-batch
\* convert_pdf_batch, "Get PDF data".  An exception raised here reaches the
\* handler's outer `except Exception` and becomes a 500.
batch_source(r, fetch, doc) ==
    IF r.pdf_url # <<>>
    THEN IF fetch.kind = "timeout"
         THEN Rejected(500, Wrapped("Batch conversion failed", Msg("Read timed out", <<>>)),
                       Fetched(r.pdf_url[1], fetch), <<>>, <<>>)
         ELSE IF fetch.kind = "error"
         THEN Rejected(500, Wrapped("Batch conversion failed", Msg("Connection error", <<>>)),
                       Fetched(r.pdf_url[1], fetch), <<>>, <<>>)
         ELSE IF fetch.status # HttpOk
         THEN Rejected(400, Msg("Failed to download PDF", <<>>), Fetched(r.pdf_url[1], fetch), <<>>, <<>>)
         ELSE Resolved(doc, "", Fetched(r.pdf_url[1], fetch), <<>>, <<>>)
    ELSE IF r.pdf_base64 # <<>>
    THEN IF r.pdf_base64[1] = "malformed"
         THEN Rejected(500, Wrapped("Batch conversion failed", Msg("Incorrect padding", <<>>)),
                       <<>>, <<r.pdf_base64[1]>>, <<>>)
         ELSE Resolved(doc, "", <<>>, <<r.pdf_base64[1]>>, <<>>)
    ELSE Rejected(400, Msg("pdf_url or pdf_base64 required", <<>>), <<>>, <<>>, <<>>)

\* the distinct members of a list of page numbers, in increasing order
RECURSIVE SortedDistinct(_)
SortedDistinct(S) ==
    IF S = {} THEN <<>>
    ELSE LET least == CHOOSE v \in S : \A w \in S : v <= w
         IN  <<least>> \o SortedDistinct(S \ {least})

\* mutant of batch_pages: the list is deduplicated and sorted
batch_pages_sorted(r) ==
    LET given == Get(r.pages, <<DefaultPage>>)
    IN  SortedDistinct({ given[k] : k \in DOMAIN given })

\* pages = request.json.get('pages', [1])
batch_pages(r) == Get(r.pages, <<DefaultPage>>)

\* mutant of too_many_pages: the limit is one page too high
too_many_pages_late(page_list) == Len(page_list) > MaxBatchPages + 1

\* len(pages) > 5
too_many_pages(page_list) == Len(page_list) > MaxBatchPages

\* convert_pdf_batch up to the loop: JSON check, options, page-count check,
\* source, size check
convert_pdf_batch_resolve ==
    /\ pc = "recv"
    /\ req.route = "/convert-batch"
    /\ \E fetch \in Fetches, doc \in Docs :
        LET page_list == batch_pages(req)
            early == IF ~req.json
                     THEN ErrorResponse(400, Msg("JSON payload required", <<>>))
                     ELSE IF too_many_pages(page_list)
                     THEN ErrorResponse(400, Msg("Maximum 5 pages allowed in batch mode", <<>>))
                     ELSE NoResponse
            src == IF early.status # 0
                   THEN Rejected(early.status, early.error, <<>>, <<>>, <<>>)
                   ELSE batch_source(req, fetch, doc)
            reply == IF src.status # 0 THEN ErrorResponse(src.status, src.error)
                     ELSE IF too_large(src.data)
                     THEN ErrorResponse(400, Msg("PDF file too large for batch processing", <<>>))
                     ELSE NoResponse
        IN  /\ pages' = IF req.json THEN page_list ELSE <<>>
            /\ dpi' = IF req.json THEN limit_dpi(Get(req.dpi, DefaultDpi)) ELSE 0
            /\ pdf_data' = src.data
            /\ fetched' = src.fetched
            /\ decoded' = src.decoded
            /\ response' = reply
            /\ pc' = IF reply.status = 0 THEN "loop" ELSE "done"
    /\ UNCHANGED << req, raises_on_range, filename, page_num, response_format,
                    idx, results, uploads, renders >>

NoImage == [page |-> 0, dpi |-> 0]

\* the entry appended to `results` for one page
batch_item(p, img) ==
    IF img.ok
    THEN [page |-> p, success |-> TRUE, image |-> img.value, error |-> NoMsg]
    ELSE [page |-> p, success |-> FALSE, image |-> NoImage, error |-> img.msg]

\* mutant of convert_pdf_batch_page: a page that fails ends the request
\* with the handler's 500 instead of being recorded
convert_pdf_batch_page_aborting ==
    /\ pc = "loop"
    /\ req.route = "/convert-batch"
    /\ idx < Len(pages)
    /\ LET p == pages[idx + 1]
           img == pdf_page_to_image(pdf_data, p - 1, dpi, raises_on_range)
       IN  /\ renders' = Append(renders, <<p - 1, dpi>>)
           /\ results' = IF img.ok THEN Append(results, batch_item(p, img)) ELSE results
           /\ response' = IF img.ok THEN response
                          ELSE ErrorResponse(500, Wrapped("Batch conversion failed", img.msg))
           /\ pc' = IF img.ok THEN pc ELSE "done"
    /\ idx' = idx + 1
    /\ UNCHANGED << req, raises_on_range, pdf_data, filename, page_num, dpi,
                    response_format, pages, fetched, decoded, uploads >>

\* one iteration of `for page_num in pages`
convert_pdf_batch_page ==
    /\ pc = "loop"
    /\ req.route = "/convert-batch"
    /\ idx < Len(pages)
    /\ LET p == pages[idx + 1]
           img == pdf_page_to_image(pdf_data, p - 1, dpi, raises_on_range)
       IN  /\ renders' = Append(renders, <<p - 1, dpi>>)
           /\ results' = Append(results, batch_item(p, img))
    /\ idx' = idx + 1
    /\ UNCHANGED << req, raises_on_range, pc, pdf_data, filename, page_num, dpi,
                    response_format, pages, response, fetched, decoded, uploads >>

\* the response after the loop
convert_pdf_batch_respond ==
    /\ pc = "loop"
    /\ req.route = "/convert-batch"
    /\ idx = Len(pages)
    /\ response' = [status |-> 200, kind |-> "batch", success |-> TRUE, error |-> NoMsg,
                    page |-> 0, dpi |-> 0, total_pages |-> Len(pages)]
    /\ pc' = "done"
    /\ UNCHANGED << req, raises_on_range, pdf_data, filename, page_num, dpi,
                    response_format, pages, idx, results, fetched, decoded, uploads, renders >>

Next ==
    \/ convert_pdf_resolve
    \/ convert_pdf_render
    \/ convert_pdf_batch_resolve
    \/ convert_pdf_batch_page
    \/ convert_pdf_batch_respond

Spec == Init /\ [][Next]_vars

\* ============================================================== claims
IsConvert == req.route = "/convert"
IsBatch == req.route = "/convert-batch"
Handled == pc # "recv"
Done == pc = "done"

\* the caller's `pages` list
RequestedPages == IF req.pages = <<>> THEN <<1>> ELSE req.pages[1]
\* the caller's dpi
RequestedDpi ==
    IF IsConvert /\ req.form_dpi # <<>> THEN req.form_dpi[1]
    ELSE IF req.json /\ req.dpi # <<>> THEN req.dpi[1]
    ELSE 300
\* a PDF buffer was resolved from the request's source
HasBuffer == pdf_data # NoData
\* the renderer cannot produce 1-indexed page p of the document
RenderFails(doc, p) == doc.npages = 0 \/ p > doc.npages \/ p = doc.bad
Elements(q) == { q[k] : k \in DOMAIN q }
\* the download did not deliver a body
DownloadFailed ==
    /\ fetched # <<>>
    /\ fetched[1].result.kind # "response" \/ fetched[1].result.status # 200

PassedBatchChecks ==
    /\ IsBatch /\ Handled /\ req.json
    /\ Len(RequestedPages) <= 5
    /\ HasBuffer /\ pdf_data.len <= 10 * 1024 * 1024

\* C1: in /convert-batch, once the page-count, source and size checks are
\* passed, every entry of `pages` gets its own render attempt, a failed
\* attempt is recorded as an item with success = false and an error text,
\* and the response is HTTP 200 with success = true whatever fails.
C1_BatchIsolatesFailures ==
    PassedBatchChecks =>
        /\ pc \in {"loop", "done"}
        /\ Len(results) = idx /\ Len(renders) = idx /\ idx <= Len(RequestedPages)
        /\ \A k \in 1..idx :
            /\ renders[k][1] = RequestedPages[k] - 1
            /\ results[k].success = ~RenderFails(pdf_data, RequestedPages[k])
            /\ ~results[k].success => results[k].error.text # ""
        /\ Done => /\ idx = Len(RequestedPages)
                   /\ response.status = 200
                   /\ response.kind = "batch"
                   /\ response.success

\* a batch answered after a failed page was followed by a rendered one
C1_Witness ==
    /\ PassedBatchChecks /\ Done
    /\ Len(results) >= 3
    /\ ~results[1].success /\ results[2].success /\ ~results[3].success
    /\ response.status = 200

\* C2: a successful /convert-batch response has one result per element of
\* the caller's `pages`, in the caller's order, duplicates kept, and
\* total_pages = len(pages) = len(results).
C2_BatchKeepsOrder ==
    (IsBatch /\ Done /\ response.status = 200) =>
        /\ Len(results) = Len(RequestedPages)
        /\ response.total_pages = Len(RequestedPages)
        /\ \A k \in 1..Len(RequestedPages) : results[k].page = RequestedPages[k]

\* a successful batch whose page list is unsorted and repeats a page
C2_Witness ==
    /\ IsBatch /\ Done /\ response.status = 200
    /\ Len(RequestedPages) = 3
    /\ RequestedPages[1] > RequestedPages[2]
    /\ RequestedPages[2] = RequestedPages[3]
    /\ Len(results) = 3

\* C3: a /convert-batch request with more than 5 pages is answered 400 and
\* the renderer is never invoked for it; 5 pages are not rejected by the
\* page-count check.
C3_BatchPageLimit ==
    (IsBatch /\ Handled /\ req.json) =>
        /\ Len(RequestedPages) > 5 =>
            /\ Done /\ response.status = 400
            /\ renders = <<>>
        /\ Len(RequestedPages) = 5 =>
            response.error.text # "Maximum 5 pages allowed in batch mode"
        /\ (Len(RequestedPages) = 5 /\ HasBuffer /\ pdf_data.len <= 10 * 1024 * 1024) =>
            pc = "loop" \/ response.status = 200

\* a six-page batch with a well-formed source, rejected
C3_Witness ==
    /\ IsBatch /\ Done
    /\ Len(RequestedPages) = 6
    /\ req.pdf_url = <<>> /\ req.pdf_base64 = << "wellformed" >>
    /\ response.status = 400
    /\ renders = <<>>

\* C4: on both routes a resolved buffer longer than 10 MiB is answered 400
\* and never rendered; a buffer of exactly 10 MiB passes the size check.
C4_SizeLimit ==
    (Handled /\ HasBuffer) =>
        /\ pdf_data.len > 10 * 1024 * 1024 =>
            /\ Done /\ response.status = 400
            /\ renders = <<>>
        /\ pdf_data.len = 10 * 1024 * 1024 =>
            \/ pc \in {"render", "loop"}
            \/ renders # <<>>
            \/ response.status = 200

\* a buffer one byte over the limit, rejected
C4_Witness ==
    /\ Done /\ HasBuffer
    /\ pdf_data.len = 10 * 1024 * 1024 + 1
    /\ response.status = 400
    /\ renders = <<>>

\* C5: on both routes the renderer gets min(requested dpi, 400), /convert
\* echoes that value in `dpi`, and a dpi above 400 is no error: a request
\* whose page renders is answered 200.
C5_DpiClamped ==
    LET effective == IF RequestedDpi > 400 THEN 400 ELSE RequestedDpi
    IN  /\ \A k \in DOMAIN renders : renders[k][2] = effective
        /\ response.kind = "image" => response.dpi = effective
        /\ (IsConvert /\ Done /\ renders # <<>> /\ ~RenderFails(pdf_data, page_num + 1))
              => response.status = 200
        /\ (IsBatch /\ Done /\ renders # <<>>) => response.status = 200

\* /convert answered 200 with dpi 400 for a request that asked for more
C5_Witness ==
    /\ IsConvert /\ Done
    /\ RequestedDpi > 400
    /\ response.status = 200 /\ response.kind = "image"
    /\ response.dpi = 400
    /\ renders = << <<page_num, 400>> >>

\* C6: only the first source in the order upload > pdf_url > pdf_base64 is
\* read: an upload keeps /convert from fetching or decoding, even when its
\* file name is rejected; on both routes pdf_url keeps pdf_base64 from being
\* decoded, also after a failed download; no source at all is a 400.
C6_SourcePriority ==
    Handled =>
        /\ (IsConvert /\ req.file # <<>>) =>
            /\ fetched = <<>> /\ decoded = <<>>
            /\ req.file[1] = <<"a", ".", "t", "x", "t">> =>
                 Done /\ response.status = 400 /\ uploads = <<>> /\ ~HasBuffer
            /\ req.file[1] # <<"a", ".", "t", "x", "t">> => uploads = req.file
        /\ (IsConvert /\ req.file = <<>> /\ req.pdf_url # <<>>) =>
            /\ decoded = <<>> /\ uploads = <<>>
            /\ Len(fetched) = 1 /\ fetched[1].url = req.pdf_url[1]
        /\ (IsConvert /\ req.file = <<>> /\ req.pdf_url = <<>> /\ req.pdf_base64 # <<>>) =>
            /\ fetched = <<>> /\ uploads = <<>> /\ decoded = req.pdf_base64
        /\ (IsBatch /\ req.pdf_url # <<>>) =>
            /\ decoded = <<>>
            /\ Len(RequestedPages) <= 5 =>
                 Len(fetched) = 1 /\ fetched[1].url = req.pdf_url[1]
        /\ (IsBatch /\ req.pdf_url = <<>>) => fetched = <<>>
        /\ DownloadFailed => Done /\ ~HasBuffer /\ renders = <<>> /\ response.status # 200
        /\ (req.file = <<>> /\ req.pdf_url = <<>> /\ req.pdf_base64 = <<>>) =>
            /\ Done /\ response.status = 400
            /\ fetched = <<>> /\ decoded = <<>> /\ uploads = <<>> /\ renders = <<>>

\* /convert with all three sources, the upload rejected for its name
C6_Witness ==
    /\ IsConvert /\ Done
    /\ req.file = << <<"a", ".", "t", "x", "t">> >>
    /\ req.pdf_url # <<>> /\ req.pdf_base64 # <<>>
    /\ response.status = 400
    /\ fetched = <<>> /\ decoded = <<>>

\* C7: a page past the end of the document yields a page-range error that
\* names the requested page and the document's page count: a 400 on
\* /convert, the item's error text on /convert-batch.
C7_PageRangeError ==
    /\ (IsConvert /\ Done /\ renders # <<>> /\ pdf_data.npages > 0
            /\ page_num + 1 > pdf_data.npages) =>
        /\ response.status = 400
        /\ (page_num + 1) \in Elements(response.error.args)
        /\ pdf_data.npages \in Elements(response.error.args)
    /\ (IsBatch /\ pdf_data.npages > 0) =>
        \A k \in DOMAIN results :
            results[k].page > pdf_data.npages =>
                /\ ~results[k].success
                /\ results[k].page \in Elements(results[k].error.args)
                /\ pdf_data.npages \in Elements(results[k].error.args)

\* what the code does keep of C7: the status, and the requested page
C7_PageRangeNamesThePage ==
    /\ (IsConvert /\ Done /\ renders # <<>> /\ pdf_data.npages > 0
            /\ page_num + 1 > pdf_data.npages) =>
        /\ response.status = 400
        /\ response.error.args = << page_num + 1 >>
    /\ (IsBatch /\ pdf_data.npages > 0) =>
        \A k \in DOMAIN results :
            results[k].page > pdf_data.npages =>
                /\ ~results[k].success
                /\ results[k].error.args = << results[k].page >>

\* C8: a download that times out is answered 408 on /convert and on
\* /convert-batch, and nothing is rendered.
C8_TimeoutIs408 ==
    (Handled /\ fetched # <<>> /\ fetched[1].result.kind = "timeout") =>
        /\ Done /\ response.status = 408
        /\ renders = <<>>

\* what the code does keep of C8: /convert answers 408
C8_ConvertTimeoutIs408 ==
    (IsConvert /\ Handled /\ fetched # <<>> /\ fetched[1].result.kind = "timeout") =>
        /\ Done /\ response.status = 408
        /\ renders = <<>>

\* C9: a malformed pdf_base64 is answered 400 on both routes, before any
\* render attempt.
C9_MalformedBase64Is400 ==
    (Handled /\ decoded = << "malformed" >>) =>
        /\ Done /\ response.status = 400
        /\ renders = <<>>

\* what the code does keep of C9: /convert answers 400
C9_ConvertMalformedBase64Is400 ==
    (IsConvert /\ Handled /\ decoded = << "malformed" >>) =>
        /\ Done /\ response.status = 400
        /\ renders = <<>>

\* the download is marked as a PDF by its content-type or by the URL
MarkedAsPdf(f) ==
    \/ f.result.ctype = <<"a", "/", "P", "D", "F">>
    \/ f.url = <<"u", ".", "P", "d", "f">>

\* C10: on both routes a downloaded body is rendered only if the
\* content-type contains 'pdf' or the URL ends in '.pdf'; otherwise the
\* answer is 400 and nothing is rendered.
C10_DownloadMustBePdf ==
    (Handled /\ fetched # <<>> /\ fetched[1].result.kind = "response"
        /\ fetched[1].result.status = 200 /\ ~MarkedAsPdf(fetched[1])) =>
        /\ Done /\ response.status = 400
        /\ renders = <<>>

\* what the code does keep of C10: /convert rejects such a download
C10_ConvertDownloadMustBePdf ==
    (IsConvert /\ Handled /\ fetched # <<>> /\ fetched[1].result.kind = "response"
        /\ fetched[1].result.status = 200 /\ ~MarkedAsPdf(fetched[1])) =>
        /\ Done /\ response.status = 400
        /\ renders = <<>>

====
